---- MODULE Spec2Model ----
(***************************************************************************)
(* Progress-log service (src/app.py): a Flask application that stores      *)
(* student progress entries in the Firestore collection "progress_logs".   *)
(*                                                                         *)
(* Strings are sequences of one-character strings so that strip() and      *)
(* lower() are computed, not assumed.  A JSON value of the request body is *)
(* a record [t, s, n]: t = "str" with the text in s, t = "int" with the    *)
(* number in n, or t = "absent" for a key that is not in the body.  A      *)
(* query-string parameter is [given, s]; request.args.get returns None     *)
(* when given is FALSE.                                                    *)
(***************************************************************************)
EXTENDS Integers, Sequences, FiniteSets, TLC

VARIABLES
    collection,   \* Firestore collection: document id -> stored document
    nextId,       \* number of documents ever added (ids are fresh, never reused)
    del,          \* per DELETE handler: position in delete_logs / clear_all_logs
    posted,       \* history: document id -> the request body of the POST that added it
    cleared,      \* history: a DELETE emptied the collection and nothing was added since
    last          \* the request handled by the step just taken, with its response

vars == <<collection, nextId, del, posted, cleared, last>>

----------------------------------------------------------------------------
(* Bounds of the model *)

MaxPosts == 2        \* Spec: documents ever added in one behaviour
MaxLogPosts == 1     \* SpecLog: documents ever added in one behaviour
MaxQueryPosts == 2   \* SpecQuery: documents ever added in one behaviour
MaxRacePosts == 3    \* SpecRace: documents ever added in one behaviour
MaxBatches == 2      \* SpecClear: collections of up to MaxBatches full batches (+-1)

(* Program constants *)

BATCH_LIMIT == 450
DELETE_SECRET == "SECRET123"

----------------------------------------------------------------------------
(* Python string operations *)

Whitespace == {" "}

UpperLetters == <<"A", "B", "S", "W", "Z">>
LowerLetters == <<"a", "b", "s", "w", "z">>

LowerChar(c) ==
    IF \E i \in 1..Len(UpperLetters) : UpperLetters[i] = c
    THEN LowerLetters[CHOOSE i \in 1..Len(UpperLetters) : UpperLetters[i] = c]
    ELSE c

RECURSIVE lstrip(_)
lstrip(s) == IF s # <<>> /\ Head(s) \in Whitespace THEN lstrip(Tail(s)) ELSE s

RECURSIVE rstrip(_)
rstrip(s) ==
    IF s # <<>> /\ s[Len(s)] \in Whitespace THEN rstrip(SubSeq(s, 1, Len(s) - 1)) ELSE s

strip(s) == rstrip(lstrip(s))

RECURSIVE lower(_)
lower(s) == IF s = <<>> THEN <<>> ELSE <<LowerChar(Head(s))>> \o lower(Tail(s))

Digits == <<"0", "1", "2", "3", "4", "5", "6", "7", "8", "9">>

RECURSIVE IntToStr(_)
IntToStr(n) ==
    IF n < 10 THEN <<Digits[n + 1]>> ELSE IntToStr(n \div 10) \o <<Digits[(n % 10) + 1]>>

\* str(x) of a JSON value that is present in the body
str(v) == IF v.t = "int" THEN IntToStr(v.n) ELSE v.s

Contains(s, c) == \E i \in 1..Len(s) : s[i] = c

----------------------------------------------------------------------------
(* Request inputs *)

Absent == [t |-> "absent", s |-> <<>>, n |-> 0]
S(x) == [t |-> "str", s |-> x, n |-> 0]
I(k) == [t |-> "int", s |-> <<>>, n |-> k]

None == [given |-> FALSE, s |-> <<>>]
Arg(x) == [given |-> TRUE, s |-> x]

Completed == <<"c", "o", "m", "p", "l", "e", "t", "e", "d">>

\* SpecLog: every field present or not, blank or not; emails of every shape
LogBodies ==
    [ email      : { Absent, S(<<" ">>), S(<<"a">>), I(7), S(<<"a", "@">>) },
      student_id : { Absent, I(7) },
      week       : { S(<<>>), S(<<"w">>) },
      exercise   : { Absent, S(<<"e">>) },
      status     : { S(<<" ">>), S(<<"Z", "z">>) },
      feedback   : { Absent, S(<<"f">>) } ]

\* SpecQuery: accepted bodies that differ in the three indexed fields
QueryBodies ==
    [ email      : { S(<<"A", "@">>), S(<<"b", "@", " ">>) },
      student_id : { S(<<"s">>), S(<<"S">>) },
      week       : { S(<<" ", "W">>), I(2) },
      exercise   : { S(<<"e">>) },
      status     : { S(Completed) },
      feedback   : { S(<<"f">>) } ]

EmailArgs == { None, Arg(<<"a", "@">>), Arg(<<"B", "@", " ">>) }
StudentIdArgs == { None, Arg(<<>>), Arg(<<"s">>), Arg(<<"S">>) }
WeekArgs == { None, Arg(<<" ">>), Arg(<<" ", "w">>), Arg(<<"2">>) }

\* Spec: accepted and rejected bodies, recognized and unrecognized statuses
CoreBodies ==
    [ email      : { S(<<"a">>), S(<<"A", "@", " ">>) },
      student_id : { S(<<"s">>), I(7) },
      week       : { S(<<" ", "W">>) },
      exercise   : { S(<<"e">>) },
      status     : { S(Completed), S(<<"Z", "z">>) },
      feedback   : { S(<<"f">>) } ]

CoreEmailArgs == { None, Arg(<<"A", "@", " ">>) }
CoreStudentIdArgs == { None, Arg(<<"s">>), Arg(<<"7">>) }
CoreWeekArgs == { None, Arg(<<" ", "W">>) }

\* SpecRace and SpecClear: one accepted body
ClearBody ==
    [ email |-> S(<<"a", "@">>), student_id |-> I(7), week |-> S(<<"w">>),
      exercise |-> S(<<"e">>), status |-> S(Completed), feedback |-> S(<<"f">>) ]

KeyArgs ==
    { [given |-> FALSE, s |-> ""], [given |-> TRUE, s |-> ""],
      [given |-> TRUE, s |-> "wrong"], [given |-> TRUE, s |-> DELETE_SECRET] }

\* the DELETE requests in flight: one in Spec and SpecClear, two in SpecRace
Workers == {"w1"}
RaceWorkers == {"w1", "w2"}

----------------------------------------------------------------------------
(* Firestore helpers *)

\* add_progress_row with the week stored as stripped but not lower-cased
add_progress_row_week_case(data, now) ==
    [ Email      |-> lower(strip(data.email.s)),
      StudentID  |-> strip(str(data.student_id)),
      Week       |-> strip(str(data.week)),
      Exercise   |-> strip(str(data.exercise)),
      Status     |-> strip(str(data.status)),
      Feedback   |-> strip(str(data.feedback)),
      created_at |-> now ]

\* The document add_progress_row builds from the request body; created_at is
\* the server timestamp, modelled as the logical time of the write.
add_progress_row(data, now) ==
    [ Email      |-> lower(strip(data.email.s)),
      StudentID  |-> strip(str(data.student_id)),
      Week       |-> lower(strip(str(data.week))),
      Exercise   |-> strip(str(data.exercise)),
      Status     |-> strip(str(data.status)),
      Feedback   |-> strip(str(data.feedback)),
      created_at |-> now ]

\* Python truthiness of a query-string parameter: None and "" are falsy
Truthy(arg) == arg.given /\ arg.s # <<>>

\* where() applied to the whole collection instead of the query built so far
where_unchained(coll, q, field, value) == { id \in DOMAIN coll : coll[id][field] = value }

\* q.where(field, "==", value) on a set of document ids of coll
where(coll, q, field, value) == { id \in q : coll[id][field] = value }

\* query_logs with the email filter compared as typed (stripped, case kept)
query_logs_email_case(coll, email, student_id, week) ==
    LET q0 == DOMAIN coll
        q1 == IF Truthy(email) THEN where(coll, q0, "Email", strip(email.s)) ELSE q0
        q2 == IF Truthy(student_id) THEN where(coll, q1, "StudentID", strip(student_id.s)) ELSE q1
        q3 == IF Truthy(week) THEN where(coll, q2, "Week", lower(strip(week.s))) ELSE q2
    IN  q3

\* query_logs: the ids of the documents the chained query streams
query_logs(coll, email, student_id, week) ==
    LET q0 == DOMAIN coll
        q1 == IF Truthy(email) THEN where(coll, q0, "Email", lower(strip(email.s))) ELSE q0
        q2 == IF Truthy(student_id) THEN where(coll, q1, "StudentID", strip(student_id.s)) ELSE q1
        q3 == IF Truthy(week) THEN where(coll, q2, "Week", lower(strip(week.s))) ELSE q2
    IN  q3

get_all_logs(coll) == DOMAIN coll

\* [doc.to_dict() | {"_id": doc.id} for doc in docs], keyed by _id
to_dicts(coll, ids) == [ id \in ids |-> coll[id] ]

\* len(logs)
len(logs) == Cardinality(DOMAIN logs)

\* batch.commit(): every document the batch names is deleted; deleting a
\* document that no longer exists succeeds and changes nothing.
commit(coll, batch) == [ id \in (DOMAIN coll) \ batch |-> coll[id] ]

\* the document the stream yields next (Firestore orders a query by document id)
StreamNext(ids) == CHOOSE x \in ids : \A y \in ids : x <= y

\* a stream that returns only the newest document
Streamed_newest(coll) == { id \in DOMAIN coll : \A other \in DOMAIN coll : other <= id }

\* db.collection(COLLECTION).stream(): the documents the query returns; Firestore
\* answers a query from one consistent snapshot of the collection
Streamed(coll) == DOMAIN coll

\* the running batch committed one operation late
ShouldCommit_late(count) == count % (BATCH_LIMIT + 1) = 0

\* line 98: the running batch is committed every BATCH_LIMIT operations
ShouldCommit(count) == count % BATCH_LIMIT = 0

----------------------------------------------------------------------------
(* POST /log *)

required == <<"email", "student_id", "week", "exercise", "status", "feedback">>

valid_statuses ==
    { Completed,
      <<"i", "n", "_", "p", "r", "o", "g", "r", "e", "s", "s">>,
      <<"n", "o", "t", "_", "s", "t", "a", "r", "t", "e", "d">>,
      <<"s", "u", "b", "m", "i", "t", "t", "e", "d">>,
      <<"r", "e", "v", "i", "e", "w", "e", "d">> }

\* the emptiness test without strip(): whitespace-only values pass
MissingOrEmpty_unstripped(data, f) == data[f].t = "absent" \/ str(data[f]) = <<>>

\* line 131: f not in data or not str(data[f]).strip()
MissingOrEmpty(data, f) == data[f].t = "absent" \/ strip(str(data[f])) = <<>>

\* the field at which the loop of lines 130-132 returns, 0 if it runs through
FirstMissing(data) ==
    IF \E i \in 1..Len(required) : MissingOrEmpty(data, required[i])
    THEN CHOOSE i \in 1..Len(required) :
            /\ MissingOrEmpty(data, required[i])
            /\ \A j \in 1..(i - 1) : ~MissingOrEmpty(data, required[j])
    ELSE 0

\* line 134: "@" not in data["email"] raises TypeError unless the email is a string
EmailCheckRaises(data) == data.email.t # "str"

InvalidEmail(data) == ~Contains(data.email.s, "@")

NonStandardStatus(data) == lower(strip(str(data.status))) \notin valid_statuses

\* the response of log_progress to a JSON body (recorded with the request)
log_progress(data, id) ==
    IF FirstMissing(data) # 0
    THEN [op |-> "POST", json |-> TRUE, status |-> 400, data |-> data,
          error |-> "Missing or empty required field", field |-> required[FirstMissing(data)]]
    ELSE IF EmailCheckRaises(data)
    THEN [op |-> "POST", json |-> TRUE, status |-> 500, data |-> data, error |-> "Internal server error"]
    ELSE IF InvalidEmail(data)
    THEN [op |-> "POST", json |-> TRUE, status |-> 400, data |-> data, error |-> "Invalid email format"]
    ELSE [op |-> "POST", json |-> TRUE, status |-> 201, data |-> data,
          message |-> "Progress logged successfully", id |-> id,
          warned |-> NonStandardStatus(data)]

\* a step that completes no request
NoResponse == [op |-> "none", status |-> 0]

\* a POST added a document: every running clear has now been overtaken
Overtaken == [ w \in DOMAIN del |-> [del[w] EXCEPT !.clean = FALSE] ]

\* db.collection(COLLECTION).add(doc)
add(coll, id, doc) == [ i \in (DOMAIN coll) \cup {id} |-> IF i = id THEN doc ELSE coll[i] ]

LogProgress(data, cap) ==
    LET r == log_progress(data, nextId + 1) IN
    /\ last' = r
    /\ IF r.status = 201
       THEN /\ nextId < cap
            /\ collection' = add(collection, nextId + 1, add_progress_row(data, nextId + 1))
            /\ posted' = add(posted, nextId + 1, data)
            /\ nextId' = nextId + 1
            /\ cleared' = FALSE
            /\ del' = Overtaken
       ELSE UNCHANGED <<collection, nextId, posted, cleared, del>>

\* line 125: the request is not JSON
LogProgressNotJson ==
    /\ last' = [op |-> "POST", json |-> FALSE, status |-> 400,
                error |-> "Content-Type must be application/json"]
    /\ UNCHANGED <<collection, nextId, posted, cleared, del>>

----------------------------------------------------------------------------
(* GET /logs and GET /logs/all *)

GetLogs(email, student_id, week) ==
    LET logs == to_dicts(collection, query_logs(collection, email, student_id, week)) IN
    /\ last' = [op |-> "GET", status |-> 200, logs |-> logs, total_count |-> len(logs),
                filters_applied |-> [email |-> email, student_id |-> student_id, week |-> week]]
    /\ UNCHANGED <<collection, nextId, posted, cleared, del>>

GetAllLogs ==
    LET logs == to_dicts(collection, get_all_logs(collection)) IN
    /\ last' = [op |-> "GETALL", status |-> 200, logs |-> logs, total_count |-> len(logs),
                firestore_ok |-> TRUE]
    /\ UNCHANGED <<collection, nextId, posted, cleared, del>>

----------------------------------------------------------------------------
(* DELETE /logs *)

Idle == [pc |-> "idle", stream |-> {}, count |-> 0, batch |-> {}, commits |-> <<>>,
         mark |-> 0, size0 |-> 0, streamed |-> {}, clean |-> FALSE]

\* the key test as "is None": an empty key is let through to the comparison
KeyMissing_none_only(key) == ~key.given

\* line 200: not provided_key
KeyMissing(key) == ~(key.given /\ key.s # "")

\* line 202: provided_key != DELETE_SECRET
KeyWrong(key) == key.s # DELETE_SECRET

\* lines 199-204: the key check; with the right key clear_all_logs is entered
DeleteBegin(w, key) ==
    /\ del[w].pc = "idle"
    /\ IF KeyMissing(key)
       THEN /\ last' = [op |-> "DELETE", status |-> 400, key |-> key,
                        error |-> "Secret key required"]
            /\ del' = del
       ELSE IF KeyWrong(key)
       THEN /\ last' = [op |-> "DELETE", status |-> 403, key |-> key,
                        error |-> "Invalid secret key"]
            /\ del' = del
       ELSE /\ last' = [op |-> "DELETE", status |-> 0, key |-> key]
            /\ del' = [del EXCEPT ![w] = [Idle EXCEPT !.pc = "clear", !.mark = nextId,
                                                       !.size0 = Cardinality(DOMAIN collection)]]
    /\ UNCHANGED <<collection, nextId, posted, cleared>>

\* lines 93-95: a fresh batch, count = 0, the query is issued
ClearStream(w) ==
    /\ del[w].pc = "clear"
    /\ del' = [del EXCEPT ![w] = [@ EXCEPT !.pc = "loop",
                                            !.stream = Streamed(collection),
                                            !.streamed = Streamed(collection),
                                            !.clean = TRUE]]
    /\ last' = NoResponse
    /\ UNCHANGED <<collection, nextId, posted, cleared>>

\* the count restarted with every batch
Increment_per_batch(count) == (count % BATCH_LIMIT) + 1

\* line 97: count += 1
Increment(count) == count + 1

\* lines 95-100: one iteration of the loop
ClearIter(w) ==
    /\ del[w].pc = "loop"
    /\ del[w].stream # {}
    /\ LET d == StreamNext(del[w].stream)
           batch == del[w].batch \cup {d}
           count == Increment(del[w].count)
       IN  IF ShouldCommit(count)
           THEN /\ collection' = commit(collection, batch)
                /\ posted' = commit(posted, batch)
                /\ del' = [del EXCEPT ![w] = [@ EXCEPT !.stream = @ \ {d}, !.count = count,
                                                        !.batch = {},
                                                        !.commits = Append(@, batch)]]
           ELSE /\ UNCHANGED <<collection, posted>>
                /\ del' = [del EXCEPT ![w] = [@ EXCEPT !.stream = @ \ {d}, !.count = count,
                                                        !.batch = batch]]
    /\ last' = NoResponse
    /\ UNCHANGED <<nextId, cleared>>

\* the last batch left uncommitted
FinalCommit_skipped(coll, batch) == coll

\* line 101: batch.commit() after the loop
FinalCommit(coll, batch) == commit(coll, batch)

\* lines 101-102 and 206-208: the last commit, then the 200 response
ClearFinish(w) ==
    /\ del[w].pc = "loop"
    /\ del[w].stream = {}
    /\ collection' = FinalCommit(collection, del[w].batch)
    /\ posted' = FinalCommit(posted, del[w].batch)
    /\ last' = [op |-> "DELETE", status |-> 200, key |-> [given |-> TRUE, s |-> DELETE_SECRET],
                deleted |-> del[w].count, worker |-> w,
                commits |-> Append(del[w].commits, del[w].batch),
                mark |-> del[w].mark, size0 |-> del[w].size0, streamed |-> del[w].streamed, clean |-> del[w].clean]
    /\ del' = [del EXCEPT ![w] = Idle]
    /\ cleared' = (cleared \/ del[w].clean)
    /\ UNCHANGED nextId

----------------------------------------------------------------------------
(* Spec: the service, requests interleaved *)

Init ==
    /\ collection = <<>>
    /\ nextId = 0
    /\ del = [w \in Workers |-> Idle]
    /\ posted = <<>>
    /\ cleared = FALSE
    /\ last = NoResponse

Next ==
    \/ \E data \in CoreBodies : LogProgress(data, MaxPosts)
    \/ LogProgressNotJson
    \/ \E e \in CoreEmailArgs, s \in CoreStudentIdArgs, k \in CoreWeekArgs : GetLogs(e, s, k)
    \/ GetAllLogs
    \/ \E w \in Workers, key \in KeyArgs : DeleteBegin(w, key)
    \/ \E w \in Workers : ClearStream(w)
    \/ \E w \in Workers : ClearIter(w)
    \/ \E w \in Workers : ClearFinish(w)

Spec == Init /\ [][Next]_vars

(* SpecLog: POST /log on every shape of body *)

NextLog ==
    \/ \E data \in LogBodies : LogProgress(data, MaxLogPosts)
    \/ LogProgressNotJson

SpecLog == Init /\ [][NextLog]_vars

(* SpecQuery: POST /log and GET /logs on every combination of filters *)

NextQuery ==
    \/ \E data \in QueryBodies : LogProgress(data, MaxQueryPosts)
    \/ \E e \in EmailArgs, s \in StudentIdArgs, k \in WeekArgs : GetLogs(e, s, k)

SpecQuery == Init /\ [][NextQuery]_vars

(* SpecRace: two DELETE /logs in flight at once, with POSTs and GETs between
   their steps *)

InitRace ==
    /\ collection = <<>>
    /\ nextId = 0
    /\ del = [w \in RaceWorkers |-> Idle]
    /\ posted = <<>>
    /\ cleared = FALSE
    /\ last = NoResponse

NextRace ==
    \/ LogProgress(ClearBody, MaxRacePosts)
    \/ GetAllLogs
    \/ \E w \in RaceWorkers, key \in KeyArgs : DeleteBegin(w, key)
    \/ \E w \in RaceWorkers : ClearStream(w)
    \/ \E w \in RaceWorkers : ClearIter(w)
    \/ \E w \in RaceWorkers : ClearFinish(w)

SpecRace == InitRace /\ [][NextRace]_vars

(* SpecClear: DELETE /logs alone, on collections around the batch limit *)

ClearSizes ==
    { n \in { k * BATCH_LIMIT + r : k \in 0..MaxBatches, r \in {-1, 0, 1} } : n >= 0 }

InitClear ==
    /\ \E n \in ClearSizes :
          /\ collection = [ id \in 1..n |-> add_progress_row(ClearBody, id) ]
          /\ posted = [ id \in 1..n |-> ClearBody ]
          /\ nextId = n
    /\ del = [w \in Workers |-> Idle]
    /\ cleared = FALSE
    /\ last = NoResponse

NextClear ==
    \/ \E w \in Workers, key \in KeyArgs : DeleteBegin(w, key)
    \/ \E w \in Workers : ClearStream(w)
    \/ \E w \in Workers : ClearIter(w)
    \/ \E w \in Workers : ClearFinish(w)

SpecClear == InitClear /\ [][NextClear]_vars

----------------------------------------------------------------------------
(* What the claims speak of, stated without the handlers' own helpers *)

Fields == {"email", "student_id", "week", "exercise", "status", "feedback"}

\* a body field that is absent, empty or whitespace-only
Blank(v) == v.t = "absent" \/ (v.t = "str" /\ \A k \in 1..Len(v.s) : v.s[k] = " ")

AllPresent(data) == \A f \in Fields : ~Blank(data[f])

HasAt(v) == v.t = "str" /\ \E k \in 1..Len(v.s) : v.s[k] = "@"

\* the text of a body value as a client writes it in a query string
Text(v) == IF v.t = "int" THEN IntToStr(v.n) ELSE v.s

Given(arg) == arg.given /\ arg.s # <<>>

\* every filter the request gives is the entry's own value of that field
OwnFilters(f, data) ==
    /\ f.email.given => f.email.s = Text(data.email)
    /\ f.student_id.given => f.student_id.s = Text(data.student_id)
    /\ f.week.given => f.week.s = Text(data.week)

IsPost(r) == r.op = "POST" /\ r.json

\* the three parts of C1: the answer to the POST, the answer to a later GET,
\* and the steps that may take an entry out of the collection
C1_Accepted ==
    (IsPost(last) /\ AllPresent(last.data) /\ HasAt(last.data.email))
        => /\ last.status = 201
           /\ last.id \in DOMAIN collection
           /\ posted[last.id] = last.data

C1_Returned ==
    last.op = "GET" =>
        \A id \in DOMAIN posted :
            OwnFilters(last.filters_applied, posted[id]) => id \in DOMAIN last.logs

C1_OnlyDeleteRemoves ==
    \A id \in DOMAIN posted :
        (id \notin DOMAIN posted' \/ id \notin DOMAIN collection')
            => \E w \in DOMAIN del : del[w].pc = "loop"

\* C1: a POST whose six fields are non-empty and whose email contains "@" is
\* answered 201 whatever its status, its entry is in the collection, a GET
\* /logs filtered by any subset of the entry's own email, student_id and week
\* returns it, and only a step of a correct-key DELETE takes an entry away.
C1_PostedEntryRetrievable ==
    /\ [](C1_Accepted /\ C1_Returned)
    /\ [][C1_OnlyDeleteRemoves]_vars

C1_Witness ==
    /\ last.op = "GET"
    /\ last.filters_applied.email.given
    /\ last.filters_applied.student_id.given
    /\ last.filters_applied.week.given
    /\ \E id \in DOMAIN last.logs :
          /\ OwnFilters(last.filters_applied, posted[id])
          /\ posted[id].status.s = <<"Z", "z">>
          /\ posted[id].student_id.t = "int"

\* the step C2 requires of a POST with a blank field
C2_Rejected ==
    (IsPost(last') /\ ~AllPresent(last'.data)) =>
        /\ last'.status = 400
        /\ last'.error = "Missing or empty required field"
        /\ \E i \in 1..6 :
              /\ last'.field = <<"email", "student_id", "week", "exercise", "status", "feedback">>[i]
              /\ Blank(last'.data[last'.field])
              /\ \A j \in 1..(i - 1) :
                    ~Blank(last'.data[<<"email", "student_id", "week", "exercise", "status", "feedback">>[j]])
        /\ collection' = collection
        /\ nextId' = nextId

\* C2: a POST with a required field absent, empty or whitespace-only is
\* answered 400 with the error naming the first such field in the order
\* email, student_id, week, exercise, status, feedback, and adds no entry.
C2_MissingFieldRejected == [][C2_Rejected]_vars

C2_Witness ==
    /\ IsPost(last)
    /\ last.status = 400
    /\ last.data.email.t = "int"
    /\ last.data.student_id.t = "int"
    /\ last.data.week.s = <<>>
    /\ Blank(last.data.status)
    /\ last.field = "week"

\* the step C3 requires of a POST whose email has no "@"
C3_Rejected ==
    (IsPost(last') /\ AllPresent(last'.data) /\ ~HasAt(last'.data.email)) =>
        /\ last'.status = 400
        /\ collection' = collection
        /\ nextId' = nextId

\* C3: a POST whose fields are all present and non-empty but whose email does
\* not contain "@" is answered 400 and adds no entry.
C3_InvalidEmailRejected == [][C3_Rejected]_vars

C3_Witness ==
    /\ IsPost(last)
    /\ AllPresent(last.data)
    /\ last.data.email.t = "str"
    /\ ~HasAt(last.data.email)
    /\ last.status = 400

\* the step C4 requires of a DELETE that is not let through
C4_Refused ==
    (last'.op = "DELETE" /\ last'.status # 200) =>
        /\ (~last'.key.given \/ last'.key.s = "") =>
              last'.status = 400 /\ collection' = collection /\ del' = del
        /\ (last'.key.given /\ last'.key.s \notin {"", "SECRET123"}) =>
              last'.status = 403 /\ collection' = collection /\ del' = del

\* C4: a DELETE with no key or an empty key is answered 400, one with a key
\* other than the delete secret 403; neither enters clear_all_logs and the
\* collection stays as it was, whatever it holds.
C4_DeleteGuard == [][C4_Refused]_vars

C4_Witness ==
    /\ last.op = "DELETE"
    /\ last.status = 403
    /\ Cardinality(DOMAIN collection) = 2

\* C5: a DELETE with the correct key is answered 200, and a GET /logs (with
\* or without filters) or GET /logs/all after it, with no POST since the
\* DELETE read the collection, returns no log and total_count 0.
C5_EmptyAfterDelete ==
    /\ (last.op = "DELETE" /\ last.key.given /\ last.key.s = "SECRET123" /\ last.status # 0)
          => last.status = 200
    /\ (last.op \in {"GET", "GETALL"} /\ cleared)
          => DOMAIN last.logs = {} /\ last.total_count = 0

C5_Witness ==
    /\ last.op = "GET"
    /\ cleared
    /\ nextId = 2
    /\ last.filters_applied.email.given
    /\ last.total_count = 0

\* C10: once a correct-key DELETE has returned 200, no entry whose POST was
\* answered 201 before that DELETE began is in the collection, however the
\* POSTs, GETs and DELETEs interleave.
C10_EarlierEntriesGone ==
    (last.op = "DELETE" /\ last.status = 200) =>
        \A id \in 1..last.mark : id \notin DOMAIN collection

C10_Witness ==
    /\ last.op = "DELETE"
    /\ last.status = 200
    /\ last.mark = 1
    /\ DOMAIN collection = {2}
    /\ ~last.clean
    /\ \E w \in DOMAIN del : del[w].pc = "loop" /\ del[w].count = 1

\* the stored entry passes every filter the request gives
Matches(doc, f) ==
    /\ Given(f.email) => doc.Email = lower(strip(f.email.s))
    /\ Given(f.student_id) => doc.StudentID = strip(f.student_id.s)
    /\ Given(f.week) => doc.Week = lower(strip(f.week.s))

\* C6: GET /logs returns exactly the stored entries that match every given
\* filter (none that fails one, all that pass them all), every stored entry
\* when no filter is given, and total_count is the number returned.
C6_ExactlyTheMatches ==
    last.op = "GET" =>
        LET f == last.filters_applied
            wanted == { id \in DOMAIN collection : Matches(collection[id], f) }
        IN  /\ DOMAIN last.logs = wanted
            /\ \A id \in wanted : last.logs[id] = collection[id]
            /\ last.total_count = Cardinality(wanted)
            /\ (~Given(f.email) /\ ~Given(f.student_id) /\ ~Given(f.week))
                  => DOMAIN last.logs = DOMAIN collection

C6_Witness ==
    /\ last.op = "GET"
    /\ Given(last.filters_applied.email)
    /\ ~Given(last.filters_applied.student_id)
    /\ Given(last.filters_applied.week)
    /\ Cardinality(DOMAIN collection) = 2
    /\ last.total_count = 1
    /\ \E id \in DOMAIN collection :
          /\ id \notin DOMAIN last.logs
          /\ collection[id].Email = lower(strip(last.filters_applied.email.s))

\* two texts that differ at most in the case of their letters
SameButCase(a, b) ==
    /\ Len(a) = Len(b)
    /\ \A k \in 1..Len(a) :
          \/ a[k] = b[k]
          \/ \E i \in 1..Len(UpperLetters) :
                {a[k], b[k]} = {UpperLetters[i], LowerLetters[i]}

\* C7 as stated: each of the three filters is case-insensitive, so an entry
\* is returned when every filter given differs from its posted value of that
\* field at most in letter case.
C7_AllFiltersIgnoreCase ==
    last.op = "GET" =>
        \A id \in DOMAIN posted :
            LET f == last.filters_applied
                d == posted[id]
            IN  ( /\ f.email.given => SameButCase(f.email.s, Text(d.email))
                  /\ f.student_id.given => SameButCase(f.student_id.s, Text(d.student_id))
                  /\ f.week.given => SameButCase(f.week.s, Text(d.week)) )
                => id \in DOMAIN last.logs

\* C7 as amended: the email and week filters are case-insensitive; the
\* student_id filter is case-sensitive: the entry is returned when the
\* student_id filter is its posted student_id, and is not returned when the
\* filter differs from it in letter case.
C7_EmailAndWeekIgnoreCase ==
    last.op = "GET" =>
        \A id \in DOMAIN posted :
            LET f == last.filters_applied
                d == posted[id]
            IN  /\ ( /\ f.email.given => SameButCase(f.email.s, Text(d.email))
                     /\ f.student_id.given => f.student_id.s = Text(d.student_id)
                     /\ f.week.given => SameButCase(f.week.s, Text(d.week)) )
                   => id \in DOMAIN last.logs
                /\ ( /\ f.student_id.given
                     /\ SameButCase(f.student_id.s, Text(d.student_id))
                     /\ f.student_id.s # Text(d.student_id) )
                   => id \notin DOMAIN last.logs

C7_Witness ==
    /\ last.op = "GET"
    /\ \E id \in DOMAIN last.logs :
          LET f == last.filters_applied
              d == posted[id]
          IN  /\ f.email.given /\ f.week.given /\ f.student_id.given
              /\ SameButCase(f.email.s, Text(d.email)) /\ f.email.s # Text(d.email)
              /\ SameButCase(f.week.s, Text(d.week)) /\ f.week.s # Text(d.week)
              /\ f.student_id.s = Text(d.student_id)

\* C8: a correct-key DELETE that runs alone reports as deleted the number of
\* entries the collection held when it started, for every size, 0 and the
\* multiples of 450 included.
C8_DeletedCount ==
    (last.op = "DELETE" /\ last.status = 200) =>
        /\ last.deleted = last.size0
        /\ collection = <<>>

C8_Witness ==
    /\ last.op = "DELETE"
    /\ last.status = 200
    /\ last.deleted = 900

\* C9: no batch clear_all_logs commits holds more than 450 deletes, and every
\* document the stream returned is in exactly one batch committed before the
\* function returns.
C9_Batches ==
    (last.op = "DELETE" /\ last.status = 200) =>
        /\ \A i \in 1..Len(last.commits) : Cardinality(last.commits[i]) <= 450
        /\ \A d \in last.streamed :
              Cardinality({ i \in 1..Len(last.commits) : d \in last.commits[i] }) = 1

C9_Witness ==
    /\ last.op = "DELETE"
    /\ last.status = 200
    /\ Len(last.commits) = 3
    /\ Cardinality(last.streamed) = 901
    /\ Cardinality(last.commits[3]) = 1

====
